---- MODULE Spec2Model ----
(***************************************************************************)
(* vg.SqrGrid (src/src/grids/SqrGrid.js): the sparse store of cells keyed  *)
(* by cellToHash, the neighbour query, the conversion between cells and    *)
(* world positions, generation, the JSON form and load.                    *)
(*                                                                         *)
(* A method of the grid is an operator named as in the source that takes   *)
(* the grid g (a record of the object's fields) and the call's arguments   *)
(* and yields [g |-> the grid afterwards, ret |-> the value returned,      *)
(* threw |-> whether the call ended in an exception].  An action, named    *)
(* with a capital, is one call made by the grid's user.                    *)
(*                                                                         *)
(* Object identity.  cells holds references.  The only cell object the     *)
(* grid itself keeps writing to is its scratch cell _cel, which            *)
(* pixelToCell hands out; celKeys is the set of keys of cells whose entry  *)
(* is that very object, and every write to _cel is a write to those        *)
(* entries (WithCel).  Every other cell is held by value.                  *)
(***************************************************************************)
EXTENDS Integers, Sequences, FiniteSets, TLC

VARIABLES size, cellSize, cells, numCells, extrudeSettings, autogenerated,
          _fullCellSize, _list, _vec3, _cel, celKeys, request, called, last

vars == <<size, cellSize, cells, numCells, extrudeSettings, autogenerated,
          _fullCellSize, _list, _vec3, _cel, celKeys, request, called, last>>

\* what is outside the grid object: the request load has in flight, and
\* the calls made to the callback load was given
loadVars == <<request, called>>

(***************************************************************************)
(* Bounds of the model.                                                    *)
(***************************************************************************)
\* heights of the cells the caller constructs: 1..MaxH
MaxH == 2
\* generate is called with size in 0..MaxSize in the store specification
MaxSize == 1
\* generate is called with size in 0..GenMaxSize in the generate specification
GenMaxSize == 5
\* the caller adds a cell only while numCells < MaxCells
MaxCells == 3
\* world positions handed to pixelToCell and getCellAt: x, z in -PosMax..PosMax
PosMax == 1

(***************************************************************************)
(* JavaScript values.                                                      *)
(***************************************************************************)
Undefined == [kind |-> "undefined"]
Null == "null"
EmptyData == {}
\* an exception: cells.length of a record with no cells list
TypeError == [kind |-> "TypeError"]
\* the grid's field cells when it holds nothing: {}
EmptyCells == [k \in {} |-> Undefined]

Digit(d) ==
    CASE d = 0 -> "0" [] d = 1 -> "1" [] d = 2 -> "2" [] d = 3 -> "3"
      [] d = 4 -> "4" [] d = 5 -> "5" [] d = 6 -> "6" [] d = 7 -> "7"
      [] d = 8 -> "8" [] d = 9 -> "9"

RECURSIVE NatToString(_)
NatToString(n) ==
    IF n < 10 THEN Digit(n) ELSE NatToString(n \div 10) \o Digit(n % 10)

\* the string an integer becomes when + joins it to a string
NumberToString(n) ==
    IF n < 0 THEN "-" \o NatToString(-n) ELSE NatToString(n)

CeilHalf_Floor(n) == n \div 2

\* Math.ceil(n / 2) of an integer n
CeilHalf(n) == (n + 1) \div 2

\* Math.round(a / b) of integers a and b # 0: floor(a / b + 1/2)
RoundDiv(a, b) ==
    IF b > 0 THEN (2 * a + b) \div (2 * b)
             ELSE (b - 2 * a) \div (-2 * b)

(***************************************************************************)
(* vg.Cell: the value type the grid stores.                                *)
(***************************************************************************)
DefaultH == 1

Cell(q, r, s, h) ==
    [q |-> q, r |-> r, s |-> s, h |-> h, walkable |-> TRUE,
     userData |-> EmptyData,
     _calcCost |-> 0, _priority |-> 0, _parent |-> Null, _visited |-> FALSE]

Cell_set(c, q, r, s) == [c EXCEPT !.q = q, !.r = r, !.s = s]

Cell_copy(c, from) ==
    [c EXCEPT !.q = from.q, !.r = from.r, !.s = from.s, !.h = from.h,
              !.userData = from.userData, !.walkable = from.walkable]

Cell_add(c, d) == [c EXCEPT !.q = c.q + d.q, !.r = c.r + d.r, !.s = c.s + d.s]

\* THREE.Vector3
Vector3(x, y, z) == [x |-> x, y |-> y, z |-> z]

(***************************************************************************)
(* The grid.                                                               *)
(***************************************************************************)
_hashDelimeter == "."

cellToHash_NoDelimiter(cell) == NumberToString(cell.q) \o NumberToString(cell.r)

cellToHash(cell) ==
    NumberToString(cell.q) \o _hashDelimeter \o NumberToString(cell.r)

\* the grid object, from the variables
this ==
    [size |-> size, cellSize |-> cellSize, cells |-> cells,
     numCells |-> numCells, extrudeSettings |-> extrudeSettings,
     autogenerated |-> autogenerated, _fullCellSize |-> _fullCellSize,
     _list |-> _list, _vec3 |-> _vec3, _cel |-> _cel, celKeys |-> celKeys]

\* the variables become the fields of grid g
Becomes(g) ==
    /\ size' = g.size
    /\ cellSize' = g.cellSize
    /\ cells' = g.cells
    /\ numCells' = g.numCells
    /\ extrudeSettings' = g.extrudeSettings
    /\ autogenerated' = g.autogenerated
    /\ _fullCellSize' = g._fullCellSize
    /\ _list' = g._list
    /\ _vec3' = g._vec3
    /\ _cel' = g._cel
    /\ celKeys' = g.celKeys

\* new vg.SqrGrid(config)
SqrGrid(config) ==
    [size |-> 5,
     cellSize |-> IF config.hasCellSize THEN config.cellSize ELSE 10,
     cells |-> EmptyCells,
     numCells |-> 0,
     extrudeSettings |-> Null,
     autogenerated |-> FALSE,
     _fullCellSize |-> (IF config.hasCellSize THEN config.cellSize ELSE 10) * 2,
     _list |-> << >>,
     _vec3 |-> Vector3(0, 0, 0),
     _cel |-> Cell(0, 0, 0, DefaultH),
     celKeys |-> {}]

Result(g, ret, threw) == [g |-> g, ret |-> ret, threw |-> threw]

\* a reference to a cell object: the scratch cell, or any other cell
CelRef == [ref |-> "_cel"]
Ref(cell) == [ref |-> "cell", cell |-> cell]
Deref(g, ref) ==
    CASE ref.ref = "_cel" -> g._cel
      [] ref.ref = "_vec3" -> g._vec3
      [] OTHER -> ref.cell

\* this.cells[h] = x and delete this.cells[h]
Put(cs, h, x) == [k \in DOMAIN cs \cup {h} |-> IF k = h THEN x ELSE cs[k]]
Delete(cs, h) == [k \in DOMAIN cs \ {h} |-> cs[k]]

\* a write of cell value c to the object _cel
WithCel(g, c) ==
    [g EXCEPT !._cel = c,
              !.cells = [k \in DOMAIN g.cells |->
                            IF k \in g.celKeys THEN c ELSE g.cells[k]]]

add_Overwrite(g, ref) ==
    LET cell == Deref(g, ref)
        h == cellToHash(cell)
    IN Result([g EXCEPT !.cells = Put(g.cells, h, cell),
                        !.numCells = g.numCells + 1,
                        !.celKeys = IF ref = CelRef THEN g.celKeys \cup {h}
                                    ELSE g.celKeys \ {h}],
              ref, FALSE)

add(g, ref) ==
    LET cell == Deref(g, ref)
        h == cellToHash(cell)
    IN IF h \in DOMAIN g.cells
       THEN Result(g, Undefined, FALSE)
       ELSE Result([g EXCEPT !.cells = Put(g.cells, h, cell),
                             !.numCells = g.numCells + 1,
                             !.celKeys = IF ref = CelRef
                                         THEN g.celKeys \cup {h}
                                         ELSE g.celKeys],
                   ref, FALSE)

remove_NoDecrement(g, ref) ==
    LET h == cellToHash(Deref(g, ref))
    IN Result([g EXCEPT !.cells = Delete(g.cells, h),
                        !.celKeys = g.celKeys \ {h}],
              Undefined, FALSE)

remove_NoCheck(g, ref) ==
    LET h == cellToHash(Deref(g, ref))
    IN Result([g EXCEPT !.cells = Delete(g.cells, h),
                        !.numCells = g.numCells - 1,
                        !.celKeys = g.celKeys \ {h}],
              Undefined, FALSE)

remove(g, ref) ==
    LET h == cellToHash(Deref(g, ref))
    IN IF h \in DOMAIN g.cells
       THEN Result([g EXCEPT !.cells = Delete(g.cells, h),
                             !.numCells = g.numCells - 1,
                             !.celKeys = g.celKeys \ {h}],
                   Undefined, FALSE)
       ELSE Result(g, Undefined, FALSE)

\* the keys of cs in the order for (k in cs) visits them; the source leaves
\* the order to the engine: it is one fixed order here, and getRandomCell,
\* which reads it, is given every index
RECURSIVE Enumerate(_)
Enumerate(S) ==
    IF S = {} THEN << >>
    ELSE LET k == CHOOSE k \in S : TRUE IN <<k>> \o Enumerate(S \ {k})

Keys(cs) == Enumerate(DOMAIN cs)

\* traverse(cb): the cells cb is called with, in order
traverse(g) == LET ks == Keys(g.cells) IN [i \in 1..Len(ks) |-> g.cells[ks[i]]]

\* the inner and the outer for loop of generate; a call that throws ends
\* its loop
RECURSIVE generate_y(_, _, _, _)
generate_y(g, x, y, half) ==
    IF y < half
    THEN LET res == add(g, Ref(Cell(x, y + 1, 0, DefaultH)))
         IN IF res.threw THEN res.g ELSE generate_y(res.g, x, y + 1, half)
    ELSE g

RECURSIVE generate_x(_, _, _)
generate_x(g, x, half) ==
    IF x < half
    THEN generate_x(generate_y(g, x, -half, half), x + 1, half)
    ELSE g

generate(g, config) ==
    LET g1 == [g EXCEPT !.size = IF config.hasSize THEN config.size ELSE g.size]
        half == CeilHalf(g1.size)
    IN Result(generate_x(g1, -half, half), Undefined, FALSE)

\* the reference held at key k of cells
Stored(g, k) == IF k \in g.celKeys THEN CelRef ELSE Ref(g.cells[k])

\* the vector cellToPixel returns is the object this._vec3
Vec3Ref == [ref |-> "_vec3"]

cellToPixel_CellSize(g, ref) ==
    LET cell == Deref(g, ref)
    IN Result([g EXCEPT !._vec3 = Vector3(cell.q * g.cellSize, cell.h,
                                          cell.r * g.cellSize)],
              Vec3Ref, FALSE)

cellToPixel(g, ref) ==
    LET cell == Deref(g, ref)
    IN Result([g EXCEPT !._vec3 = Vector3(cell.q * g._fullCellSize, cell.h,
                                          cell.r * g._fullCellSize)],
              Vec3Ref, FALSE)

\* the settings generateTiles merges from its defaults and config
DefaultExtrude == "extrude:default"

\* the for loop of generateTiles: a tile is placed at cellToPixel(c) for
\* each cell c
RECURSIVE generateTiles_loop(_, _, _)
generateTiles_loop(g, ks, i) ==
    IF i <= Len(ks)
    THEN LET res == cellToPixel(g, Stored(g, ks[i]))
         IN IF res.threw THEN res.g ELSE generateTiles_loop(res.g, ks, i + 1)
    ELSE g

generateTiles_StaleFull(g, config) ==
    LET settingsCellSize ==
            IF config.hasCellSize THEN config.cellSize ELSE g.cellSize
        g1 == [g EXCEPT !.cellSize = settingsCellSize,
                        !.autogenerated = TRUE,
                        !.extrudeSettings = DefaultExtrude]
    IN Result(generateTiles_loop(g1, Keys(g1.cells), 1),
              [kind |-> "tiles", n |-> Len(Keys(g.cells))], FALSE)

generateTiles(g, config) ==
    LET settingsCellSize ==
            IF config.hasCellSize THEN config.cellSize ELSE g.cellSize
        g1 == [g EXCEPT !.cellSize = settingsCellSize,
                        !._fullCellSize = settingsCellSize * 2,
                        !.autogenerated = TRUE,
                        !.extrudeSettings = DefaultExtrude]
    IN Result(generateTiles_loop(g1, Keys(g1.cells), 1),
              [kind |-> "tiles", n |-> Len(Keys(g.cells))], FALSE)

RECURSIVE fromJSON_loop(_, _, _)
fromJSON_loop(g, cs, i) ==
    IF i <= Len(cs)
    THEN LET res == add(g, Ref(Cell_copy(Cell(0, 0, 0, DefaultH), cs[i])))
         IN IF res.threw THEN res.g ELSE fromJSON_loop(res.g, cs, i + 1)
    ELSE g

fromJSON_Merge(g, json) ==
    LET g1 == [g EXCEPT !.size = json.size,
                        !.cellSize = json.cellSize,
                        !._fullCellSize = json.cellSize * 2,
                        !.extrudeSettings = json.extrudeSettings,
                        !.autogenerated = json.autogenerated]
    IN IF json.hasCells
       THEN Result(fromJSON_loop(g1, json.cells, 1), Undefined, FALSE)
       ELSE Result(g1, TypeError, TRUE)

fromJSON(g, json) ==
    LET g1 == [g EXCEPT !.cells = EmptyCells, !.numCells = 0, !.celKeys = {},
                        !.size = json.size,
                        !.cellSize = json.cellSize,
                        !._fullCellSize = json.cellSize * 2,
                        !.extrudeSettings = json.extrudeSettings,
                        !.autogenerated = json.autogenerated]
    IN IF json.hasCells
       THEN Result(fromJSON_loop(g1, json.cells, 1), Undefined, FALSE)
       ELSE Result(g1, TypeError, TRUE)

\* the record toJSON pushes for cell c
CellRecord(c) ==
    [q |-> c.q, r |-> c.r, s |-> c.s, h |-> c.h, walkable |-> c.walkable,
     userData |-> c.userData]

toJSON_DefaultHeight(g) ==
    LET ks == Keys(g.cells)
    IN Result(g,
              [size |-> g.size, cellSize |-> g.cellSize,
               extrudeSettings |-> g.extrudeSettings,
               autogenerated |-> g.autogenerated,
               hasCells |-> TRUE,
               cells |-> [i \in 1..Len(ks) |->
                             [CellRecord(g.cells[ks[i]]) EXCEPT !.h = DefaultH]]],
              FALSE)

toJSON(g) ==
    LET ks == Keys(g.cells)
    IN Result(g,
              [size |-> g.size, cellSize |-> g.cellSize,
               extrudeSettings |-> g.extrudeSettings,
               autogenerated |-> g.autogenerated,
               hasCells |-> TRUE,
               cells |-> [i \in 1..Len(ks) |-> CellRecord(g.cells[ks[i]])]],
              FALSE)

\* the scratch fields as clearPath leaves them
Cleared(c) ==
    [c EXCEPT !._calcCost = 0, !._priority = 0, !._parent = Null,
              !._visited = FALSE]

clearPath_KeepVisited(g) ==
    LET Kept(c) == [Cleared(c) EXCEPT !._visited = c._visited]
    IN Result([g EXCEPT !.cells = [k \in DOMAIN g.cells |-> Kept(g.cells[k])],
                        !._cel = IF g.celKeys = {} THEN g._cel
                                 ELSE Kept(g._cel)],
              Undefined, FALSE)

clearPath(g) ==
    Result([g EXCEPT !.cells = [k \in DOMAIN g.cells |-> Cleared(g.cells[k])],
                     !._cel = IF g.celKeys = {} THEN g._cel ELSE Cleared(g._cel)],
           Undefined, FALSE)

\* a pathfinding pass reaches the cell at key k from the cell at key p
Visited(c, p) ==
    [c EXCEPT !._calcCost = 1, !._priority = 1, !._parent = p,
              !._visited = TRUE]

visit(g, k, p) ==
    Result([g EXCEPT !.cells = [j \in DOMAIN g.cells |->
                                   IF j = k \/ (k \in g.celKeys /\ j \in g.celKeys)
                                   THEN Visited(g.cells[j], p) ELSE g.cells[j]],
                     !._cel = IF k \in g.celKeys THEN Visited(g._cel, p)
                              ELSE g._cel],
           Undefined, FALSE)

\* pre-computed permutations
_directions ==
    <<Cell(1, 0, 0, DefaultH), Cell(0, -1, 0, DefaultH),
      Cell(-1, 0, 0, DefaultH), Cell(0, 1, 0, DefaultH)>>
_diagonals ==
    <<Cell(-1, -1, 0, DefaultH), Cell(-1, 1, 0, DefaultH),
      Cell(1, 1, 0, DefaultH), Cell(1, -1, 0, DefaultH)>>

\* the array getNeighbors returns is the object this._list
ListRef == [ref |-> "_list"]

\* pos.x / this._fullCellSize is a finite number: _fullCellSize # 0 in
\* every state of this model
pixelToCell(g, pos) ==
    LET q == RoundDiv(pos.x, g._fullCellSize)
        r == RoundDiv(pos.z, g._fullCellSize)
    IN Result(WithCel(g, Cell_set(g._cel, q, r, 0)), CelRef, FALSE)

\* this._cel.set(q, r) names no s; s is not read by any method of the
\* square grid and is written 0 here
getCellAt(g, pos) ==
    LET q == RoundDiv(pos.x, g._fullCellSize)
        r == RoundDiv(pos.z, g._fullCellSize)
        g1 == WithCel(g, Cell_set(g._cel, q, r, 0))
        h == cellToHash(g1._cel)
    IN Result(g1,
              IF h \in DOMAIN g1.cells
              THEN (IF h \in g1.celKeys THEN CelRef ELSE Ref(g1.cells[h]))
              ELSE Undefined,
              FALSE)

\* the filters a caller hands to getNeighbors: none, or a function of
\* (cell, n)
Filters == {"none", "walkable", "level"}
Filter(f, cell, n) ==
    CASE f = "none" -> TRUE
      [] f = "walkable" -> n.walkable
      [] f = "level" -> n.h <= cell.h

\* one of the two for loops of getNeighbors, from index i on; an element
\* of _list is the key of cells the neighbour n was read from
RECURSIVE getNeighbors_loop(_, _, _, _, _)
getNeighbors_loop(g, ref, dirs, i, filter) ==
    IF i > Len(_directions)
    THEN g
    ELSE LET g1 == WithCel(g, Cell_copy(g._cel, Deref(g, ref)))
             g2 == WithCel(g1, Cell_add(g1._cel, dirs[i]))
             key == cellToHash(g2._cel)
         IN IF key \notin DOMAIN g2.cells
            THEN getNeighbors_loop(g2, ref, dirs, i + 1, filter)
            ELSE IF ~Filter(filter, Deref(g2, ref), g2.cells[key])
            THEN getNeighbors_loop(g2, ref, dirs, i + 1, filter)
            ELSE getNeighbors_loop([g2 EXCEPT !._list = Append(g2._list, key)],
                                   ref, dirs, i + 1, filter)

getNeighbors_Appending(g, ref, diagonal, filter) ==
    LET g1 == getNeighbors_loop(g, ref, _directions, 1, filter)
        g2 == IF diagonal
              THEN getNeighbors_loop(g1, ref, _diagonals, 1, filter)
              ELSE g1
    IN Result(g2, ListRef, FALSE)

getNeighbors(g, ref, diagonal, filter) ==
    LET g0 == [g EXCEPT !._list = << >>]
        g1 == getNeighbors_loop(g0, ref, _directions, 1, filter)
        g2 == IF diagonal
              THEN getNeighbors_loop(g1, ref, _diagonals, 1, filter)
              ELSE g1
    IN Result(g2, ListRef, FALSE)

\* vg.Tools.randomInt(from, to): any integer of from..to
randomInt(from, to) == from..to

\* getRandomCell with x the integer randomInt gave: the cell for (c in
\* cells) reaches at index x, else this.cells[c] for the last c of the
\* loop, which is undefined when the loop had nothing to visit
getRandomCell(g, x) ==
    LET ks == Keys(g.cells)
    IN IF x < Len(ks)
       THEN Result(g, Stored(g, ks[x + 1]), FALSE)
       ELSE IF Len(ks) > 0
       THEN Result(g, Stored(g, ks[Len(ks)]), FALSE)
       ELSE Result(g, Undefined, FALSE)

Abs(n) == IF n < 0 THEN -n ELSE n
Max(a, b) == IF a >= b THEN a ELSE b

distance_Symmetric(g, cellA, cellB) ==
    Result(g, Max(Abs(cellA.q - cellB.q), Abs(cellA.r - cellB.r))
                + Abs(cellB.h - cellA.h), FALSE)

distance(g, cellA, cellB) ==
    LET d == Max(Abs(cellA.q - cellB.q), Abs(cellA.r - cellB.r))
    IN Result(g, d + (cellB.h - cellA.h), FALSE)

\* load hands vg.Tools.getJSON a url and one callback; the request is in
\* flight until getJSON has its answer
NoRequest == [state |-> "none"]
Pending(url) == [state |-> "pending", url |-> url]
Failed(url) == [state |-> "failed", url |-> url]
Done(url) == [state |-> "done", url |-> url]

\* the function load gives getJSON as callback: fromJSON(json), then the
\* caller's callback with json; calls is the calls it makes to the caller's
\* callback, each with the grid as it is at that moment
load_callback(g, json) ==
    LET res == fromJSON(g, json)
    IN IF res.threw
       THEN [g |-> res.g, ret |-> res.ret, threw |-> TRUE, calls |-> << >>]
       ELSE [g |-> res.g, ret |-> Undefined, threw |-> FALSE,
             calls |-> <<[json |-> json, grid |-> res.g]>>]

(***************************************************************************)
(* Initial state: a grid as the constructor leaves it.                     *)
(***************************************************************************)
NoConfig == [hasCellSize |-> FALSE, cellSize |-> 0]

\* the grid is as new vg.SqrGrid(config) leaves it, and no load was made
Constructed(config) ==
    /\ \E g \in {SqrGrid(config)} :
          /\ size = g.size
          /\ cellSize = g.cellSize
          /\ cells = g.cells
          /\ numCells = g.numCells
          /\ extrudeSettings = g.extrudeSettings
          /\ autogenerated = g.autogenerated
          /\ _fullCellSize = g._fullCellSize
          /\ _list = g._list
          /\ _vec3 = g._vec3
          /\ _cel = g._cel
          /\ celKeys = g.celKeys
    /\ request = NoRequest
    /\ called = << >>

\* the state after new vg.SqrGrid(config)
New(config) ==
    /\ Constructed(config)
    /\ last = [op |-> "new"]

Init == New(NoConfig)

(***************************************************************************)
(* The caller's calls.                                                     *)
(***************************************************************************)
Heights == 1..MaxH

\* the (q, r) generate fills for a size: x and y run over [-half, half)
Region(n) ==
    LET half == CeilHalf(n)
    IN {<<x, y + 1>> : x \in (-half)..(half - 1), y \in (-half)..(half - 1)}

\* the cells the caller constructs in the store specification: of any
\* height, in the region generate fills
StoreCells == {Cell(qr[1], qr[2], 0, h) : qr \in Region(MaxSize), h \in Heights}
\* the cells the caller hands to remove: one for each key
StoreKeyCells == {Cell(qr[1], qr[2], 0, DefaultH) : qr \in Region(MaxSize)}

Add(args) ==
    \E ref \in args :
        LET res == add(this, ref)
        IN /\ numCells < MaxCells
           /\ Becomes(res.g)
           /\ UNCHANGED loadVars
           /\ last' = [op |-> "add", arg |-> ref, ret |-> res.ret,
                       threw |-> res.threw]

Remove(args) ==
    \E ref \in args :
        LET res == remove(this, ref)
        IN /\ Becomes(res.g)
           /\ UNCHANGED loadVars
           /\ last' = [op |-> "remove", arg |-> ref, ret |-> res.ret,
                       threw |-> res.threw,
                       pre |-> [numCells |-> numCells]]

\* generate's config: {size: n}, or {} when hasSize is FALSE
SizeConfig(n) == [hasSize |-> TRUE, size |-> n]
NoSizeConfig == [hasSize |-> FALSE, size |-> 0]

Generate(configs) ==
    \E config \in configs :
        LET res == generate(this, config)
        IN /\ Becomes(res.g)
           /\ UNCHANGED loadVars
           /\ last' = [op |-> "generate", ret |-> res.ret,
                       threw |-> res.threw,
                       pre |-> [numCells |-> numCells,
                                autogenerated |-> autogenerated]]

\* the records of a JSON file's cells list
SomeData == {<<"owner", 1>>}
JsonRecord(q, r, h, walkable, userData) ==
    [q |-> q, r |-> r, s |-> 0, h |-> h, walkable |-> walkable,
     userData |-> userData]
JsonRecords ==
    {JsonRecord(0, 0, 1, TRUE, EmptyData), JsonRecord(-1, 1, 2, FALSE, SomeData)}
\* the longest cells list of a JSON file handed to fromJSON
MaxJsonCells == 2
\* the cells lists: every list of these records, and one that names (0, 0)
\* twice with different fields
JsonCellLists ==
    UNION {[1..n -> JsonRecords] : n \in 0..MaxJsonCells}
      \cup {<<JsonRecord(0, 0, 1, TRUE, EmptyData),
              JsonRecord(0, 0, 2, FALSE, SomeData)>>}
JsonExtrude == "extrude:json"
\* the JSON files handed to fromJSON: well formed, with a (q, r) twice,
\* with a negative cellSize, and with no cells list
Json(cs2, auto, hasCells, cs) ==
    [size |-> 3, cellSize |-> cs2,
     extrudeSettings |-> IF auto THEN JsonExtrude ELSE Null,
     autogenerated |-> auto, hasCells |-> hasCells, cells |-> cs]
Jsons ==
    {Json(2, TRUE, TRUE, cs) : cs \in JsonCellLists}
      \cup {Json(-1, FALSE, TRUE, cs) : cs \in {l \in JsonCellLists : Len(l) <= 1}}
      \cup {Json(2, TRUE, FALSE, << >>)}

\* the fields of the grid the caller can read, as a value
Snapshot(g) ==
    [cells |-> g.cells, numCells |-> g.numCells, size |-> g.size,
     cellSize |-> g.cellSize, autogenerated |-> g.autogenerated]

FromJSON(jsons) ==
    \E json \in jsons :
        LET res == fromJSON(this, json)
        IN /\ Becomes(res.g)
           /\ UNCHANGED loadVars
           /\ last' = [op |-> "fromJSON", arg |-> json, ret |-> res.ret,
                       threw |-> res.threw]

\* the set of records toJSON would hold for the cells of cs
RecordsOf(cs) == {CellRecord(cs[k]) : k \in DOMAIN cs}
\* no two cells of cs have the same (q, r)
UniqueQR(cs) ==
    \A j, k \in DOMAIN cs :
        (cs[j].q = cs[k].q /\ cs[j].r = cs[k].r) => j = k
HasScratch(c) ==
    c._visited \/ c._calcCost # 0 \/ c._priority # 0 \/ c._parent # Null

\* fromJSON(toJSON()): the grid is saved and loaded again
SaveAndLoad ==
    LET json == toJSON(this).ret
        res == fromJSON(this, json)
    IN /\ Becomes(res.g)
       /\ UNCHANGED loadVars
       /\ last' = [op |-> "fromJSON(toJSON)", ret |-> res.ret,
                   threw |-> res.threw,
                   pre |-> [cellSize |-> cellSize, numCells |-> numCells,
                            records |-> RecordsOf(cells),
                            unique |-> UniqueQR(cells),
                            scratch |-> \E k \in DOMAIN cells :
                                            HasScratch(cells[k])]]

\* a pathfinding pass, run on cleared cells, marks a stored cell
Visit ==
    \E k \in DOMAIN cells :
        \E p \in {Null} :
            LET res == visit(this, k, p)
            IN /\ \A j \in DOMAIN cells : ~cells[j]._visited
               /\ Becomes(res.g)
               /\ UNCHANGED loadVars
               /\ last' = [op |-> "visit", ret |-> res.ret,
                           threw |-> res.threw]

ClearPath ==
    LET res == clearPath(this)
    IN /\ Becomes(res.g)
       /\ UNCHANGED loadVars
       /\ last' = [op |-> "clearPath", ret |-> res.ret, threw |-> res.threw,
                   pre |-> [scratch |-> \E k \in DOMAIN cells :
                                           HasScratch(cells[k])]]

(***************************************************************************)
(* Spec: the store.  add, remove, generate, fromJSON, toJSON and the       *)
(* scratch fields a pathfinding pass leaves on the stored cells.           *)
(***************************************************************************)
Next ==
    \/ Add({Ref(c) : c \in StoreCells})
    \/ Remove({Ref(c) : c \in StoreKeyCells})
    \/ Generate({SizeConfig(n) : n \in 0..MaxSize})
    \/ FromJSON(Jsons)
    \/ SaveAndLoad
    \/ Visit
    \/ ClearPath

Spec == Init /\ [][Next]_vars

(***************************************************************************)
(* SpecNeighbors: the neighbour query on a board: the origin and the       *)
(* eight cells around it, of mixed height and walkability, some removed.   *)
(***************************************************************************)
Board ==
    Json(1, FALSE, TRUE,
         <<JsonRecord(0, 0, 1, TRUE, EmptyData),
           JsonRecord(1, 0, 2, TRUE, EmptyData),
           JsonRecord(0, -1, 1, FALSE, EmptyData),
           JsonRecord(-1, 0, 1, TRUE, EmptyData),
           JsonRecord(0, 1, 2, FALSE, EmptyData),
           JsonRecord(-1, -1, 1, TRUE, EmptyData),
           JsonRecord(-1, 1, 2, TRUE, EmptyData),
           JsonRecord(1, 1, 1, FALSE, EmptyData),
           JsonRecord(1, -1, 1, TRUE, EmptyData)>>)

BoardCells == {Cell(c.q, c.r, 0, DefaultH) : c \in {Board.cells[i] : i \in 1..Len(Board.cells)}}

\* the caller removes at most MaxHoles cells of the board
MaxHoles == 1

RemoveFromBoard ==
    /\ numCells > Len(Board.cells) - MaxHoles
    /\ Remove({Ref(c) : c \in BoardCells})

Positions == {[x |-> x, y |-> 0, z |-> z] : x, z \in (-PosMax)..PosMax}

PixelToCell ==
    \E pos \in Positions :
        LET res == pixelToCell(this, pos)
        IN /\ Becomes(res.g)
           /\ UNCHANGED loadVars
           /\ last' = [op |-> "pixelToCell", ret |-> res.ret,
                       threw |-> res.threw]

\* the cells getNeighbors is asked about: the origin, a corner of the
\* board, and the cell pixelToCell returned
Centers ==
    {Ref(Cell(0, 0, 0, DefaultH)), Ref(Cell(1, -1, 0, DefaultH)), CelRef}

GetNeighbors(refs, diagonals, filters) ==
    \E ref \in refs, diagonal \in diagonals, filter \in filters :
        LET res == getNeighbors(this, ref, diagonal, filter)
        IN /\ ref = CelRef => last.op = "pixelToCell"
           /\ Becomes(res.g)
           /\ UNCHANGED loadVars
           /\ last' = [op |-> "getNeighbors", ret |-> res.ret,
                       threw |-> res.threw,
                       arg |-> [ref |-> ref, diagonal |-> diagonal,
                                filter |-> filter]]

NextNeighbors ==
    \/ FromJSON({Board})
    \/ RemoveFromBoard
    \/ PixelToCell
    \/ GetNeighbors(Centers, BOOLEAN, Filters)

SpecNeighbors == Init /\ [][NextNeighbors]_vars

(***************************************************************************)
(* SpecGenerate: generate and generateTiles, on an empty grid and on a     *)
(* grid generated before.                                                  *)
(***************************************************************************)
TileConfigs ==
    {[hasCellSize |-> FALSE, cellSize |-> 0], [hasCellSize |-> TRUE, cellSize |-> 1]}

GenerateTiles ==
    \E config \in TileConfigs :
        LET res == generateTiles(this, config)
        IN /\ Becomes(res.g)
           /\ UNCHANGED loadVars
           /\ last' = [op |-> "generateTiles", ret |-> res.ret,
                       threw |-> res.threw,
                       pre |-> [cellSize |-> cellSize]]

EmptyJsons == {Json(2, auto, TRUE, << >>) : auto \in BOOLEAN}

NextGenerate ==
    \/ Generate({SizeConfig(n) : n \in 0..GenMaxSize} \cup {NoSizeConfig})
    \/ GenerateTiles
    \/ FromJSON(EmptyJsons)

SpecGenerate == Init /\ [][NextGenerate]_vars

(***************************************************************************)
(* SpecConvert: the conversion between cells and world positions, on a     *)
(* grid constructed with any cell size and resized by generateTiles and    *)
(* fromJSON.                                                               *)
(***************************************************************************)
\* the grid is constructed with no cellSize or one of 1..MaxCellSize
MaxCellSize == 3
ConstructorConfigs ==
    {NoConfig} \cup {[hasCellSize |-> TRUE, cellSize |-> n] : n \in 1..MaxCellSize}

InitConvert == \E config \in ConstructorConfigs : New(config)

\* the cells handed to cellToPixel: q, r in -MaxCoord..MaxCoord
MaxCoord == 2
ConvertCells ==
    {Cell(q, r, 0, h) : q \in (-MaxCoord)..MaxCoord, r \in (-MaxCoord)..MaxCoord,
                        h \in Heights}

\* pixelToCell(cellToPixel(cell))
CellToPixelToCell ==
    \E cell \in ConvertCells :
        LET res1 == cellToPixel(this, Ref(cell))
            res == pixelToCell(res1.g, Deref(res1.g, res1.ret))
        IN /\ Becomes(res.g)
           /\ UNCHANGED loadVars
           /\ last' = [op |-> "pixelToCell(cellToPixel)", arg |-> Ref(cell),
                       ret |-> res.ret, threw |-> res1.threw \/ res.threw]

\* the JSON files handed to fromJSON here: of cellSize 2, with and without
\* cells
ConvertJsons ==
    {Json(2, TRUE, TRUE, cs) : cs \in {l \in JsonCellLists : Len(l) # 1}}

GetRandomCell ==
    \E x \in randomInt(0, numCells) :
        LET res == getRandomCell(this, x)
        IN /\ Becomes(res.g)
           /\ UNCHANGED loadVars
           /\ last' = [op |-> "getRandomCell", arg |-> x, ret |-> res.ret,
                       threw |-> res.threw,
                       pre |-> [numCells |-> numCells]]

NextConvert ==
    \/ GenerateTiles
    \/ FromJSON(ConvertJsons)
    \/ CellToPixelToCell
    \/ GetRandomCell

SpecConvert == InitConvert /\ [][NextConvert]_vars

(***************************************************************************)
(* SpecPure: the two methods that read nothing but their arguments,        *)
(* distance and cellToHash.  The initial state draws the arguments from a  *)
(* bounded set of cells, and the action applies the method to them.        *)
(***************************************************************************)
\* the cells handed to distance: q, r in -MaxDist..MaxDist, h in 0..MaxDistH
MaxDist == 1
MaxDistH == 3
DistanceCells ==
    {Cell(q, r, 0, h) : q \in (-MaxDist)..MaxDist, r \in (-MaxDist)..MaxDist,
                        h \in 0..MaxDistH}

\* the caller has two cells and calls distance with them
DistanceArgs ==
    {[op |-> "args", of |-> "distance", arg |-> [a |-> cellA, b |-> cellB]] :
        cellA \in DistanceCells, cellB \in DistanceCells}

Distance ==
    /\ last.op = "args"
    /\ last.of = "distance"
    /\ LET res == distance(this, last.arg.a, last.arg.b)
       IN /\ Becomes(res.g)
          /\ UNCHANGED loadVars
          /\ last' = [op |-> "distance", arg |-> last.arg,
                      ret |-> res.ret, threw |-> res.threw]

\* the cells handed to cellToHash: q, r in -MaxHash..MaxHash, of two kinds
\* that differ in s, h, walkable and userData
MaxHash == 11
HashCells ==
    UNION {{Cell(q, r, 0, DefaultH),
            [Cell(q, r, 1, 2) EXCEPT !.walkable = FALSE, !.userData = SomeData]} :
           q \in (-MaxHash)..MaxHash, r \in (-MaxHash)..MaxHash}

\* the caller has a cell and calls cellToHash with it
CellToHashArgs ==
    {[op |-> "args", of |-> "cellToHash", arg |-> cell] : cell \in HashCells}

CellToHash ==
    /\ last.op = "args"
    /\ last.of = "cellToHash"
    /\ UNCHANGED <<size, cellSize, cells, numCells, extrudeSettings,
                   autogenerated, _fullCellSize, _list, _vec3, _cel, celKeys>>
    /\ UNCHANGED loadVars
    /\ last' = [op |-> "cellToHash", arg |-> last.arg,
                ret |-> cellToHash(last.arg), threw |-> FALSE]

InitPure ==
    /\ Constructed(NoConfig)
    /\ last \in DistanceArgs \cup CellToHashArgs

NextPure ==
    \/ Distance
    \/ CellToHash

SpecPure == InitPure /\ [][NextPure]_vars

(***************************************************************************)
(* SpecScratch: the store and the queries together, on a grid of cell      *)
(* size 1, where the caller also hands the cell pixelToCell returned, the  *)
(* grid's scratch cell, to add and remove.                                 *)
(***************************************************************************)
GetCellAt ==
    \E pos \in Positions :
        LET res == getCellAt(this, pos)
        IN /\ Becomes(res.g)
           /\ UNCHANGED loadVars
           /\ last' = [op |-> "getCellAt", ret |-> res.ret,
                       threw |-> res.threw]

\* the caller adds and removes the cell pixelToCell returned only right
\* after pixelToCell returned it
AddReturnedCell ==
    /\ last.op = "pixelToCell"
    /\ Add({CelRef})

RemoveReturnedCell ==
    /\ last.op = "pixelToCell"
    /\ Remove({CelRef})

\* the cells the caller constructs here
ScratchCells == {Cell(0, 0, 0, DefaultH), Cell(-1, 0, 0, DefaultH)}

ScratchJsons == {Json(1, FALSE, TRUE, cs) : cs \in {l \in JsonCellLists : Len(l) = 1}}

InitScratch == New([hasCellSize |-> TRUE, cellSize |-> 1])

NextScratch ==
    \/ Add({Ref(c) : c \in ScratchCells})
    \/ AddReturnedCell
    \/ Remove({Ref(c) : c \in ScratchCells})
    \/ RemoveReturnedCell
    \/ Generate({SizeConfig(n) : n \in 0..MaxSize})
    \/ FromJSON(ScratchJsons)
    \/ PixelToCell
    \/ GetCellAt
    \/ GetNeighbors({Ref(Cell(0, 0, 0, DefaultH))}, {FALSE}, {"none"})

SpecScratch == InitScratch /\ [][NextScratch]_vars

(***************************************************************************)
(* SpecLoad: load, with the caller's add, remove and generate calls        *)
(* between the start of the request and its end.  getJSON ends every       *)
(* request: with a parsed record, which it hands to the callback load gave *)
(* it, or with a failure, for which load gave it nothing to call.          *)
(***************************************************************************)
Urls == {"grid.json"}

\* load(url, callback, scope): one request is in flight at a time; called
\* holds the calls made to this load's callback
Load ==
    \E url \in Urls :
        /\ request.state # "pending"
        /\ request' = Pending(url)
        /\ called' = << >>
        /\ UNCHANGED <<size, cellSize, cells, numCells, extrudeSettings,
                       autogenerated, _fullCellSize, _list, _vec3, _cel,
                       celKeys>>
        /\ last' = [op |-> "load", arg |-> url, ret |-> Undefined,
                    threw |-> FALSE]

\* the records a request can end with: well formed, with a (q, r) twice,
\* and with no cells list
LoadJsons ==
    {Json(2, TRUE, TRUE, cs) : cs \in JsonCellLists}
      \cup {Json(2, TRUE, FALSE, << >>)}

\* getJSON has the parsed record and calls the callback load gave it
GetJSONSucceeds ==
    \E json \in LoadJsons :
        LET res == load_callback(this, json)
        IN /\ request.state = "pending"
           /\ request' = Done(request.url)
           /\ Becomes(res.g)
           /\ called' = called \o res.calls
           /\ last' = [op |-> "load:callback", arg |-> json, ret |-> res.ret,
                       threw |-> res.threw,
                       pre |-> [op |-> last.op, keys |-> DOMAIN cells]]

\* the transfer or the parse fails: getJSON calls nothing
GetJSONFails ==
    /\ request.state = "pending"
    /\ request' = Failed(request.url)
    /\ UNCHANGED <<size, cellSize, cells, numCells, extrudeSettings,
                   autogenerated, _fullCellSize, _list, _vec3, _cel, celKeys>>
    /\ UNCHANGED <<called, last>>

NextLoad ==
    \/ Load
    \/ GetJSONSucceeds
    \/ GetJSONFails
    \/ Add({Ref(c) : c \in StoreKeyCells})
    \/ Remove({Ref(c) : c \in StoreKeyCells})
    \/ Generate({SizeConfig(n) : n \in 0..MaxSize})

\* a request that is in flight ends
SpecLoad ==
    /\ Init
    /\ [][NextLoad]_vars
    /\ WF_vars(GetJSONSucceeds \/ GetJSONFails)

(***************************************************************************)
(* The claims.                                                             *)
(***************************************************************************)

\* C1: after any sequence of add, remove, generate and fromJSON calls on a
\* freshly constructed grid, numCells is the number of entries of cells,
\* which is the number of cells traverse visits.
C1_NumCellsIsCount ==
    /\ numCells = Cardinality(DOMAIN cells)
    /\ numCells = Len(traverse(this))

\* a cell was removed from a grid that generate filled, and cells remain
C1_Witness ==
    /\ last.op = "remove"
    /\ last.pre.numCells = numCells + 1
    /\ numCells = 3

\* C2: add(cell) when cells already holds an entry at the cell's key leaves
\* cells and numCells as they were (the stored cell and its fields with
\* them) and returns undefined.
C2_AddOccupiedIsNoOp ==
    [][(/\ last'.op = "add"
        /\ cellToHash(Deref(this, last'.arg)) \in DOMAIN cells)
       => (/\ cells' = cells
           /\ numCells' = numCells
           /\ last'.ret = Undefined)]_vars

\* add was called with a cell of another height than the one stored at
\* its key, and returned undefined
C2_Witness ==
    /\ last.op = "add"
    /\ last.ret = Undefined
    /\ numCells = 1
    /\ cells[cellToHash(last.arg.cell)].h # last.arg.cell.h

\* C3: remove(cell) deletes the entry at the cell's key and takes one from
\* numCells when there is such an entry; when there is none it changes
\* neither cells nor numCells; it throws in neither case, and numCells
\* stays at or above 0.
C3_RemoveDeletesOrIsNoOp ==
    [][last'.op = "remove"
       => LET h == cellToHash(Deref(this, last'.arg))
          IN /\ ~last'.threw
             /\ numCells' >= 0
             /\ IF h \in DOMAIN cells
                THEN /\ DOMAIN cells' = DOMAIN cells \ {h}
                     /\ \A k \in DOMAIN cells' : cells'[k] = cells[k]
                     /\ numCells' = numCells - 1
                ELSE /\ cells' = cells
                     /\ numCells' = numCells]_vars

\* remove was called for a key with no entry, on a grid that holds cells
C3_Witness ==
    /\ last.op = "remove"
    /\ last.pre.numCells = numCells
    /\ numCells >= 1
    /\ cellToHash(last.arg.cell) \notin DOMAIN cells

\* a JSON record the format rules out: no cells list, a negative
\* cellSize, or a (q, r) twice
Malformed(json) ==
    \/ ~json.hasCells
    \/ json.cellSize < 0
    \/ \E i, j \in 1..Len(json.cells) :
          /\ i # j
          /\ json.cells[i].q = json.cells[j].q
          /\ json.cells[i].r = json.cells[j].r

\* C4: fromJSON succeeds completely or leaves cells, numCells, size,
\* cellSize and autogenerated untouched: given a malformed record it
\* throws, and whenever it throws the grid is as it was before the call.
C4_FromJSONAllOrNothing ==
    [][last'.op = "fromJSON"
       => /\ Malformed(last'.arg) => last'.threw
          /\ last'.threw => Snapshot(this)' = Snapshot(this)]_vars

\* C5: for a grid whose cells have unique (q, r), fromJSON(toJSON()) gives
\* the same cellSize, the same numCells and the same set of records
\* (q, r, s, h, walkable, userData), and no rebuilt cell carries scratch
\* state.
C5_RoundTrip ==
    (last.op = "fromJSON(toJSON)" /\ last.pre.unique)
    => /\ ~last.threw
       /\ cellSize = last.pre.cellSize
       /\ numCells = last.pre.numCells
       /\ RecordsOf(cells) = last.pre.records
       /\ \A k \in DOMAIN cells : ~HasScratch(cells[k])

\* a grid was saved and loaded that held a visited cell, a cell that is
\* not walkable and has user data, and a cell above the default height
C5_Witness ==
    /\ last.op = "fromJSON(toJSON)"
    /\ last.pre.unique
    /\ last.pre.scratch
    /\ \E k \in DOMAIN cells : ~cells[k].walkable /\ cells[k].userData # EmptyData
    /\ \E k \in DOMAIN cells : cells[k].h # DefaultH /\ cells[k].walkable

\* the offsets C6 names, in its order
OrthogonalOffsets == <<(<<1, 0>>), (<<0, -1>>), (<<-1, 0>>), (<<0, 1>>)>>
DiagonalOffsets == <<(<<-1, -1>>), (<<-1, 1>>), (<<1, 1>>), (<<1, -1>>)>>

\* the keys of the entries of cs at cell + each offset, in order, without
\* the offsets that have no entry and the entries the filter rejects
NeighborsAt(cs, cell, diagonal, filter) ==
    LET offs == OrthogonalOffsets \o (IF diagonal THEN DiagonalOffsets ELSE << >>)
        keys == [i \in 1..Len(offs) |->
                    cellToHash([q |-> cell.q + offs[i][1],
                                r |-> cell.r + offs[i][2]])]
        Kept(k) == k \in DOMAIN cs /\ Filter(filter, cell, cs[k])
    IN SelectSeq(keys, Kept)

\* C6: getNeighbors(cell, diagonal, filter) returns a sequence, which is
\* exactly the stored cells at cell + (+1,0), (0,-1), (-1,0), (0,+1) and,
\* when diagonal is set, at cell + (-1,-1), (-1,+1), (+1,+1), (+1,-1), in
\* that order, without the offsets that have no cell and the cells the
\* filter rejects.
C6_NeighborsInOrder ==
    [][last'.op = "getNeighbors"
       => /\ last'.ret = ListRef
          /\ _list' = NeighborsAt(cells, Deref(this, last'.arg.ref),
                                  last'.arg.diagonal, last'.arg.filter)]_vars

\* C6 for a cell that is not the grid's scratch cell
C6_NeighborsOfOtherCells ==
    [][(last'.op = "getNeighbors" /\ last'.arg.ref # CelRef)
       => /\ last'.ret = ListRef
          /\ _list' = NeighborsAt(cells, Deref(this, last'.arg.ref),
                                  last'.arg.diagonal, last'.arg.filter)]_vars

\* C7: the sequence one getNeighbors call returned is not changed by a
\* later getNeighbors call: what the caller holds is the array _list, and
\* after the next call it holds what it held when it was returned.
C7_ResultNotChangedByLaterCall ==
    [][(last.op = "getNeighbors" /\ last'.op = "getNeighbors")
       => _list' = _list]_vars

\* the (q, r) of the cells stored
StoredPairs == {<<cells[k].q, cells[k].r>> : k \in DOMAIN cells}

\* C8: generate({size}) on an empty grid stores exactly one cell for every
\* (q, r) with q and r each in [-ceil(size/2), ceil(size/2)), and no other.
C8_GenerateFillsSquare ==
    (last.op = "generate" /\ last.pre.numCells = 0)
    => LET half == CeilHalf(size)
           square == ((-half)..(half - 1)) \X ((-half)..(half - 1))
       IN /\ StoredPairs = square
          /\ DOMAIN cells = {cellToHash([q |-> p[1], r |-> p[2]]) : p \in square}
          /\ numCells = Cardinality(square)

C10_GenerateSetsAutogenerated ==
    last.op = "generate" => autogenerated

\* C11: in every state reachable through the constructor, generateTiles
\* and fromJSON, _fullCellSize equals 2 * cellSize.
C11_FullCellSizeIsTwiceCellSize ==
    _fullCellSize = 2 * cellSize

\* generateTiles gave the grid another cellSize than it had
C11_Witness ==
    /\ last.op = "generateTiles"
    /\ last.pre.cellSize # cellSize
    /\ numCells > 0

\* C14: for every integer (q, r) and every grid whose cellSize is a
\* positive integer, pixelToCell(cellToPixel({q, r})) has the same q and r.
C14_PixelToCellInvertsCellToPixel ==
    (last.op = "pixelToCell(cellToPixel)" /\ cellSize > 0)
    => /\ ~last.threw
       /\ Deref(this, last.ret).q = Deref(this, last.arg).q
       /\ Deref(this, last.ret).r = Deref(this, last.arg).r

\* a cell with a negative q went to a position and back, on a grid whose
\* cells are wider than 2
C14_Witness ==
    /\ last.op = "pixelToCell(cellToPixel)"
    /\ cellSize = MaxCellSize
    /\ last.arg.cell.q = -1
    /\ last.arg.cell.r = MaxCoord
    /\ _vec3.x = -2 * MaxCellSize

\* the Chebyshev distance of (q, r): the least d with |a.q - b.q| <= d and
\* |a.r - b.r| <= d
Chebyshev(a, b) ==
    LET Within(d) == (a.q - b.q) \in (-d)..d /\ (a.r - b.r) \in (-d)..d
    IN CHOOSE d \in 0..(2 * MaxDist) :
           Within(d) /\ \A e \in 0..(d - 1) : ~Within(e)

\* C13: distance(a, b) equals max(|a.q - b.q|, |a.r - b.r|) + (b.h - a.h)
\* for all cells a, b with bounded integer q, r, h; so distance(a, b) -
\* distance(b, a) = 2 * (b.h - a.h), and A = (0, 0, h = 0), B = (0, 1, h = 3)
\* give 4 and -2.
C13_DistanceIsChebyshevPlusHeightDelta ==
    last.op = "distance"
    => LET a == last.arg.a
           b == last.arg.b
           back == distance(this, b, a).ret
       IN /\ last.ret = Chebyshev(a, b) + (b.h - a.h)
          /\ last.ret - back = 2 * (b.h - a.h)
          /\ (a = Cell(0, 0, 0, 0) /\ b = Cell(0, 1, 0, 3))
             => (last.ret = 4 /\ back = -2)

\* distance(B, A) of the example: a negative distance
C13_Witness ==
    /\ last.op = "distance"
    /\ last.arg.a = Cell(0, 1, 0, 3)
    /\ last.arg.b = Cell(0, 0, 0, 0)
    /\ last.ret = -2

\* C15: cellToHash gives different keys for any two cells with different
\* integer (q, r) pairs (negative values included), and the same key for
\* any two cells with equal (q, r) whatever their s, h and walkable.
C15_HashIsOneToOneOnQR ==
    last.op = "cellToHash"
    => \A other \in HashCells :
           (cellToHash(other) = last.ret)
           <=> (other.q = last.arg.q /\ other.r = last.arg.r)

\* the key of a cell with a negative q and an r of two digits, which is
\* not walkable and above the default height
C15_Witness ==
    /\ last.op = "cellToHash"
    /\ last.arg.q = -1
    /\ last.arg.r = 11
    /\ ~last.arg.walkable
    /\ last.ret = "-1.11"

\* C16: clearPath sets the cost and priority to 0, the parent to absent
\* and visited to false on every stored cell, and changes nothing else: the
\* key set of cells, numCells and each cell's q, r, s, h, walkable and
\* userData are as before.
C16_ClearPathResetsScratchOnly ==
    [][last'.op = "clearPath"
       => /\ ~last'.threw
          /\ DOMAIN cells' = DOMAIN cells
          /\ numCells' = numCells
          /\ <<size, cellSize, _fullCellSize, extrudeSettings, autogenerated>>'
               = <<size, cellSize, _fullCellSize, extrudeSettings, autogenerated>>
          /\ \A k \in DOMAIN cells :
                /\ cells'[k]._calcCost = 0
                /\ cells'[k]._priority = 0
                /\ cells'[k]._parent = Null
                /\ cells'[k]._visited = FALSE
                /\ CellRecord(cells'[k]) = CellRecord(cells[k])]_vars

\* clearPath ran on a grid that held a visited cell and a cell that is not
\* walkable and has user data
C16_Witness ==
    /\ last.op = "clearPath"
    /\ last.pre.scratch
    /\ numCells >= 2
    /\ \E k \in DOMAIN cells : ~cells[k].walkable /\ cells[k].userData # EmptyData

\* C12: getRandomCell on a grid with no cells fails fast with an explicit
\* error instead of silently returning an absent value.
C12_RandomCellOfEmptyGridThrows ==
    (last.op = "getRandomCell" /\ last.pre.numCells = 0) => last.threw

\* C18: after any sequence of add, remove, generate, fromJSON, pixelToCell,
\* getCellAt and getNeighbors calls, add(pixelToCell(pos)) among them,
\* every entry of cells is filed under the key cellToHash computes from
\* that cell's current (q, r).
C18_EntriesFiledUnderTheirKey ==
    \A k \in DOMAIN cells : k = cellToHash(cells[k])

\* C19: getNeighbors leaves the q and r of the cell passed to it
\* unchanged, and returns the same neighbours for the cell object returned
\* by pixelToCell as for a separate cell with equal (q, r).
C19_ReturnedCellAsAnyOtherCell ==
    [][last'.op = "getNeighbors"
       => LET ref == last'.arg.ref
              separate == Ref(Deref(this, ref))
              after == IF ref = CelRef THEN _cel' ELSE ref.cell
          IN /\ after.q = Deref(this, ref).q
             /\ after.r = Deref(this, ref).r
             /\ _list' = getNeighbors(this, separate, last'.arg.diagonal,
                                      last'.arg.filter).g._list]_vars

\* C17: whenever the fetch/parse step of load fails, the caller of load is
\* eventually notified of the failure through an explicit failure channel,
\* and the grid is never left silently empty.  All load was given to call
\* is its callback: a notification is a call of it for the failed request.
C17_LoadFailureIsReported ==
    [](request.state = "failed"
       => <>(request.state = "failed" /\ Len(called) > 0))

====
